---- MODULE Spec2Model ----
(***************************************************************************)
(* State-machine model of ChatKitPanel (src/app/page.tsx): the script      *)
(* availability monitor, the session credential provider                   *)
(* (getClientSecret), the client tool router (onClientTool), the reset     *)
(* controller (handleResetChat) and the derived view model.                *)
(*                                                                         *)
(* JavaScript values are encoded as tagged records:                        *)
(*   Null        null / undefined / absent property                        *)
(*   Str(s)      the string s                                              *)
(*   Num(n)      the number n                                              *)
(*   Obj(f)      an object whose own properties are the function f         *)
(***************************************************************************)
EXTENDS Integers, Sequences, FiniteSets, TLC

VARIABLES
    WORKFLOW_ID,            \* imported configuration value (line 44), fixed per run
    customElement,          \* window.customElements.get("openai-chatkit") is truthy
    isMountedRef,           \* isMountedRef.current (line 106)
    listening,              \* the script effect's window listeners are attached
    timeoutId,              \* the 5 s timer of the script effect is pending
    scriptStatus,           \* "pending" | "ready" | "error" (line 107)
    errors,                 \* ErrorState (line 104)
    isInitializingSession,  \* line 105
    widgetInstanceKey,      \* line 114
    processedFacts,         \* processedFacts.current (line 103)
    calls,                  \* getClientSecret invocations awaiting fetch
    fetchCount,             \* number of fetch() requests issued so far
    threadSaves,            \* onWidgetAction invocations per fact id since the last clear
    clearedBy,              \* per fact id, the operation whose clear last dropped it
                            \* from processedFacts: "none" | "thread" | "reset"
    lastOp                  \* the operation that produced the current state, with what
                            \* it passed to its caller and to the callback props

vars == <<WORKFLOW_ID, customElement, isMountedRef, listening, timeoutId,
          scriptStatus, errors, isInitializingSession, widgetInstanceKey,
          processedFacts, calls, fetchCount, threadSaves, clearedBy, lastOp>>

-----------------------------------------------------------------------------
(* Bounds of the model *)

MaxCalls == 2        \* getClientSecret invocations that may overlap
MaxFetch == 2        \* fetch() requests issued in one run
MaxKey == 1          \* resets performed in one run
MaxSaves == 2        \* onWidgetAction invocations counted per fact id and thread

-----------------------------------------------------------------------------
(* JavaScript values *)

Null == [t |-> "null"]
Str(s) == [t |-> "str", s |-> s]
Num(n) == [t |-> "num", n |-> n]
Obj(f) == [t |-> "obj", f |-> f]

NoProps == [k \in {} |-> Null]

\* property read obj.key on a non-null value: undefined unless an own property
Get(v, key) ==
    IF v.t = "obj" /\ key \in DOMAIN v.f THEN v.f[key] ELSE Null

\* the `in` operator on an object
HasProp(v, key) == v.t = "obj" /\ key \in DOMAIN v.f

\* JavaScript truthiness of the values used here
Truthy(v) ==
    CASE v.t = "null" -> FALSE
      [] v.t = "str" -> v.s # ""
      [] v.t = "num" -> v.n # 0
      [] OTHER -> TRUE

\* x ?? y
Coalesce(x, y) == IF x = Null THEN y ELSE x

\* decimal rendering of the small numbers used as inputs
NumToString(n) ==
    CASE n = 0 -> "0"
      [] n = 1 -> "1"
      [] n = 7 -> "7"
      [] OTHER -> "NaN"

\* String(v) for the primitive values used here
ToStr(v) ==
    CASE v.t = "str" -> v.s
      [] v.t = "num" -> NumToString(v.n)
      [] v.t = "null" -> "undefined"
      [] OTHER -> "[object Object]"

-----------------------------------------------------------------------------
(* Configuration *)

\* WORKFLOW_ID is a string, modelled as the sequence of its segments;
\* <<>> is the missing / empty value.
WorkflowIds ==
    { <<>>, <<"wf_replace">>, <<"wf_replace", "_with_your_workflow_id">>,
      <<"wf_", "68df4b13">> }

StartsWith(s, p) == Len(s) >= Len(p) /\ SubSeq(s, 1, Len(p)) = p

\* the configuration test without the placeholder check of line 172
isWorkflowConfigured_NoPlaceholderCheck == WORKFLOW_ID # <<>>

\* lines 171-173
isWorkflowConfigured ==
    WORKFLOW_ID # <<>> /\ ~StartsWith(WORKFLOW_ID, <<"wf_replace">>)

ConfigMessage == "Defina NEXT_PUBLIC_CHATKIT_WORKFLOW_ID no ambiente (Render)."
MissingSecretMessage == "Resposta sem client_secret"
\* the detail of line 157, written without its diacritics
TimeoutDetail ==
    "O componente web do ChatKit nao esta disponivel. Verifique se a URL do script esta acessivel."

-----------------------------------------------------------------------------
(* ErrorState *)

createInitialErrors ==
    [script |-> Null, session |-> Null, integration |-> Null, retryable |-> FALSE]

\* setErrors((current) => ({ ...current, ...updates }))
setErrorState(current, updates) ==
    [k \in DOMAIN current |->
        IF k \in DOMAIN updates THEN updates[k] ELSE current[k]]

-----------------------------------------------------------------------------
(* Script availability monitor *)

\* handleLoaded acting only on a pending status
handleLoaded_OnlyWhenPending(mounted, st) ==
    IF ~mounted \/ st.scriptStatus # "pending" THEN st
    ELSE [st EXCEPT !.scriptStatus = "ready",
                    !.errors = setErrorState(st.errors, [script |-> Null])]

\* handleLoaded without setErrorState({ script: null }) of line 134
handleLoaded_KeepsScriptError(mounted, st) ==
    IF ~mounted THEN st
    ELSE [st EXCEPT !.scriptStatus = "ready"]

\* lines 131-135: handleLoaded, the state it leaves given the liveness flag
handleLoaded(mounted, st) ==
    IF ~mounted THEN st
    ELSE [st EXCEPT !.scriptStatus = "ready",
                    !.errors = setErrorState(st.errors, [script |-> Null])]

\* handleError that records the message but leaves scriptStatus alone
handleError_KeepsStatus(mounted, st, detail) ==
    IF ~mounted THEN st
    ELSE [st EXCEPT
            !.errors = setErrorState(st.errors,
                [script |-> Str("Erro: " \o ToStr(Coalesce(detail, Str("erro desconhecido")))),
                 retryable |-> FALSE]),
            !.isInitializingSession = FALSE]

\* lines 137-144: handleError(event) with event.detail = detail
\* handleError marking its error retryable, unlike line 141
handleError_Retryable(mounted, st, detail) ==
    IF ~mounted THEN st
    ELSE [st EXCEPT
            !.scriptStatus = "error",
            !.errors = setErrorState(st.errors,
                [script |-> Str("Erro: " \o ToStr(Coalesce(detail, Str("erro desconhecido")))),
                 retryable |-> TRUE]),
            !.isInitializingSession = FALSE]

handleError(mounted, st, detail) ==
    IF ~mounted THEN st
    ELSE [st EXCEPT
            !.scriptStatus = "error",
            !.errors = setErrorState(st.errors,
                [script |-> Str("Erro: " \o ToStr(Coalesce(detail, Str("erro desconhecido")))),
                 retryable |-> FALSE]),
            !.isInitializingSession = FALSE]

\* body of the script effect (lines 146-162) run with the status of the render
\* that scheduled it; the previous run's cleanup has cleared the old timer
scriptEffectBody(mounted, element, st) ==
    IF element THEN [handleLoaded(mounted, st) EXCEPT !.timeoutId = FALSE]
    ELSE [st EXCEPT !.timeoutId = (st.scriptStatus = "pending")]

\* re-render after a handler: the script effect re-runs when scriptStatus
\* differs from the status it last ran with, and once more if its own
\* handleLoaded() changed the status again
RECURSIVE commitScriptEffect(_, _, _, _)
commitScriptEffect(mounted, element, prevStatus, st) ==
    IF st.scriptStatus = prevStatus THEN st
    ELSE commitScriptEffect(mounted, element, st.scriptStatus,
                            scriptEffectBody(mounted, element, st))

\* the part of the component state the script handlers work on
View ==
    [scriptStatus |-> scriptStatus, errors |-> errors,
     isInitializingSession |-> isInitializingSession, timeoutId |-> timeoutId]

Apply(st) ==
    /\ scriptStatus' = st.scriptStatus
    /\ errors' = st.errors
    /\ isInitializingSession' = st.isInitializingSession
    /\ timeoutId' = st.timeoutId

-----------------------------------------------------------------------------
(* Session credential provider *)

\* HTTP response bodies: the empty text, a text that is not JSON, or the JSON
\* text of a value
RawEmpty == [raw |-> "empty"]
RawText == [raw |-> "text"]
RawJson(v) == [raw |-> "json", value |-> v]

\* lines 243-250: data starts as {} and is replaced only by a successful parse
parseBody(raw) ==
    IF raw.raw = "json" THEN raw.value ELSE Obj(NoProps)

\* extractErrorDetail reading the top-level message (lines 397-398) before
\* the details checks (lines 385-395)
extractErrorDetail_MessageBeforeDetails(payload, fallback) ==
    LET error == Get(payload, "error")
        msg == Get(error, "message")
        details == Get(payload, "details")
        nestedError == Get(details, "error")
        nestedMsg == Get(nestedError, "message")
        message == Get(payload, "message")
    IN IF ~Truthy(payload) THEN fallback
       ELSE IF error.t = "str" THEN error.s
       ELSE IF HasProp(error, "message") /\ msg.t = "str" THEN msg.s
       ELSE IF message.t = "str" THEN message.s
       ELSE IF details.t = "str" THEN details.s
       ELSE IF HasProp(details, "error") /\ nestedError.t = "str"
            THEN nestedError.s
       ELSE IF HasProp(details, "error") /\ HasProp(nestedError, "message")
               /\ nestedMsg.t = "str"
            THEN nestedMsg.s
       ELSE fallback

\* lines 372-402
extractErrorDetail(payload, fallback) ==
    LET error == Get(payload, "error")
        msg == Get(error, "message")
        details == Get(payload, "details")
        nestedError == Get(details, "error")
        nestedMsg == Get(nestedError, "message")
        message == Get(payload, "message")
    IN IF ~Truthy(payload) THEN fallback
       ELSE IF error.t = "str" THEN error.s
       ELSE IF HasProp(error, "message") /\ msg.t = "str" THEN msg.s
       ELSE IF details.t = "str" THEN details.s
       ELSE IF HasProp(details, "error") /\ nestedError.t = "str"
            THEN nestedError.s
       ELSE IF HasProp(details, "error") /\ HasProp(nestedError, "message")
               /\ nestedMsg.t = "str"
            THEN nestedMsg.s
       ELSE IF message.t = "str" THEN message.s
       ELSE fallback

NullReadMessage == "Cannot read properties of null (reading 'client_secret')"
FetchFailedMessage == "Failed to fetch"

\* a settled fetch: the request was rejected, or an HTTP response arrived
Rejected == [arrived |-> FALSE]
Http(ok, statusText, raw) ==
    [arrived |-> TRUE, ok |-> ok, statusText |-> statusText, body |-> raw]

\* lines 222-265: what the try block does with a settled fetch, either
\* returning the secret or throwing an Error with a message
tryBlock(resp) ==
    IF ~resp.arrived THEN [kind |-> "throw", value |-> Str(FetchFailedMessage)]
    ELSE LET data == parseBody(resp.body)
         IN IF ~resp.ok
            THEN [kind |-> "throw",
                  value |-> Str(extractErrorDetail(data, resp.statusText))]
            ELSE IF data = Null
            THEN [kind |-> "throw", value |-> Str(NullReadMessage)]
            ELSE IF ~Truthy(Get(data, "client_secret"))
            THEN [kind |-> "throw", value |-> Str(MissingSecretMessage)]
            ELSE [kind |-> "return", value |-> Get(data, "client_secret")]

\* a getClientSecret invocation: not running, or suspended at `await fetch`
\* (instanceKey: the widgetInstanceKey at the time of the invocation)
\* (seq: the invocation's place in the order the fetches were started;
\*  overlapped: another invocation has been in flight during this one)
Idle ==
    [pc |-> "idle", currentSecret |-> Null, instanceKey |-> 0, seq |-> 0,
     overlapped |-> FALSE]
Fetching(secret, key, seq, overlapped) ==
    [pc |-> "fetching", currentSecret |-> secret, instanceKey |-> key,
     seq |-> seq, overlapped |-> overlapped]

CallIds == 1..MaxCalls

\* values the widget runtime passes as currentSecret
CurrentSecrets == {Null, Str("cs_old")}

\* settled fetches the session endpoint and the network can produce
Responses ==
    { Rejected,
      Http(FALSE, "Internal Server Error", RawJson(Obj([error |-> Str("boom")]))),
      Http(FALSE, "", RawText),
      Http(TRUE, "OK", RawJson(Obj([client_secret |-> Str("cs_new")]))),
      Http(TRUE, "OK", RawJson(Obj(NoProps))),
      Http(TRUE, "OK", RawEmpty),
      Http(TRUE, "OK", RawJson(Null)) }

\* lines 207-219: the synchronous part of getClientSecret, up to `await fetch`
getClientSecretStart(i, secret) ==
    /\ listening \/ ~isMountedRef
    /\ calls[i].pc = "idle"
    /\ \A j \in CallIds : j < i => calls[j].pc # "idle"
    /\ IF ~isWorkflowConfigured
       THEN /\ IF isMountedRef
               THEN /\ errors' = setErrorState(errors,
                            [session |-> Str(ConfigMessage), retryable |-> FALSE])
                    /\ isInitializingSession' = FALSE
               ELSE UNCHANGED <<errors, isInitializingSession>>
            /\ lastOp' = [name |-> "getClientSecret", step |-> "start",
                          currentSecret |-> secret,
                          instanceKey |-> widgetInstanceKey, response |-> Null,
                          kind |-> "throw", value |-> Str(ConfigMessage)]
            /\ UNCHANGED <<calls, fetchCount>>
       ELSE /\ fetchCount < MaxFetch
            /\ IF isMountedRef
               THEN /\ isInitializingSession' =
                            IF ~Truthy(secret) THEN TRUE ELSE isInitializingSession
                    /\ errors' = setErrorState(errors,
                            [session |-> Null, integration |-> Null,
                             retryable |-> FALSE])
               ELSE UNCHANGED <<errors, isInitializingSession>>
            /\ calls' =
                  [j \in CallIds |->
                     IF j = i
                     THEN Fetching(secret, widgetInstanceKey, fetchCount + 1,
                                   \E k \in CallIds : calls[k].pc = "fetching")
                     ELSE IF calls[j].pc = "fetching"
                     THEN [calls[j] EXCEPT !.overlapped = TRUE]
                     ELSE calls[j]]
            /\ fetchCount' = fetchCount + 1
            /\ lastOp' = [name |-> "getClientSecret", step |-> "start",
                          currentSecret |-> secret,
                          instanceKey |-> widgetInstanceKey, response |-> Null,
                          kind |-> "pending", value |-> Null]
    /\ UNCHANGED <<WORKFLOW_ID, customElement, isMountedRef, listening, timeoutId,
                   scriptStatus, widgetInstanceKey, processedFacts, threadSaves,
                   clearedBy>>

\* the continuation without the isMountedRef.current tests of lines 261, 269
settleErrors_NoLivenessCheck(mounted, outcome, errs) ==
    IF outcome.kind = "return"
    THEN setErrorState(errs, [session |-> Null, integration |-> Null])
    ELSE setErrorState(errs, [session |-> outcome.value, retryable |-> FALSE])

\* the continuation without the write of line 262 that clears the session
\* error on success
settleErrors_NoClearOnSuccess(mounted, outcome, errs) ==
    IF ~mounted \/ outcome.kind = "return" THEN errs
    ELSE setErrorState(errs, [session |-> outcome.value, retryable |-> FALSE])

\* lines 261-263, 266-272: what the continuation after the fetch writes to errors
settleErrors(mounted, outcome, errs) ==
    IF ~mounted THEN errs
    ELSE IF outcome.kind = "return"
    THEN setErrorState(errs, [session |-> Null, integration |-> Null])
    ELSE setErrorState(errs, [session |-> outcome.value, retryable |-> FALSE])

\* the finally block without the !currentSecret test of line 274
settleInitializing_AnyCall(mounted, secret, initializing) ==
    IF mounted THEN FALSE ELSE initializing

\* lines 273-277: the finally block
settleInitializing(mounted, secret, initializing) ==
    IF mounted /\ ~Truthy(secret) THEN FALSE ELSE initializing

\* lines 222-277: the continuation of invocation i once its fetch has settled
getClientSecretSettle(i, resp) ==
    /\ calls[i].pc = "fetching"
    /\ LET outcome == tryBlock(resp)
       IN /\ errors' = settleErrors(isMountedRef, outcome, errors)
          /\ isInitializingSession' =
                settleInitializing(isMountedRef, calls[i].currentSecret,
                                   isInitializingSession)
          /\ lastOp' = [name |-> "getClientSecret", step |-> "settle",
                        currentSecret |-> calls[i].currentSecret,
                        instanceKey |-> calls[i].instanceKey, response |-> resp,
                        kind |-> outcome.kind, value |-> outcome.value,
                        seq |-> calls[i].seq, overlapped |-> calls[i].overlapped]
    /\ calls' = [calls EXCEPT ![i] = Idle]
    /\ UNCHANGED <<WORKFLOW_ID, customElement, isMountedRef, listening, timeoutId,
                   scriptStatus, widgetInstanceKey, processedFacts, fetchCount,
                   threadSaves, clearedBy>>

-----------------------------------------------------------------------------
(* Client tool router *)

\* fact_text strings are sequences of characters, so that the whitespace
\* normalisation can be computed
Whitespace == {" ", "\t", "\n"}

\* text.replace(/\s+/, " "), without the g flag of line 319: only the first
\* run of whitespace is replaced
RECURSIVE collapseWhitespace_FirstRunOnly(_)
collapseWhitespace_FirstRunOnly(text) ==
    IF text = <<>> THEN <<>>
    ELSE IF Head(text) \in Whitespace
    THEN IF Len(text) > 1 /\ text[2] \in Whitespace
         THEN collapseWhitespace_FirstRunOnly(Tail(text))
         ELSE <<" ">> \o Tail(text)
    ELSE <<Head(text)>> \o collapseWhitespace_FirstRunOnly(Tail(text))

\* text.replace(/\s+/g, " "): every maximal run of whitespace becomes one space
RECURSIVE collapseWhitespace(_)
collapseWhitespace(text) ==
    IF text = <<>> THEN <<>>
    ELSE IF Head(text) \in Whitespace
    THEN IF Len(text) > 1 /\ text[2] \in Whitespace
         THEN collapseWhitespace(Tail(text))
         ELSE <<" ">> \o collapseWhitespace(Tail(text))
    ELSE <<Head(text)>> \o collapseWhitespace(Tail(text))

\* String.prototype.trim
RECURSIVE trim(_)
trim(text) ==
    IF text = <<>> THEN <<>>
    ELSE IF Head(text) \in Whitespace THEN trim(Tail(text))
    ELSE IF text[Len(text)] \in Whitespace THEN trim(SubSeq(text, 1, Len(text) - 1))
    ELSE text

\* String(params.fact_text ?? "") as a character sequence
textOf(v) ==
    CASE v.t = "null" -> <<>>
      [] v.t = "str" -> v.s
      [] v.t = "num" -> <<NumToString(v.n)>>
      [] OTHER -> <<"[object Object]">>

\* String(params.fact_id ?? "")
factIdOf(v) == ToStr(Coalesce(v, Str("")))

ThemeValues == {Null, Str("light"), Str("dark"), Str("Light")}
FactIdValues == {Null, Str(""), Str("f1"), Str("7"), Num(7)}
FactTextValues == {Null, Str(<<"a", " ", " ", " ", "b", "\n", " ", "c">>)}
FactIds == {factIdOf(v) : v \in FactIdValues}

Invocations ==
    {[name |-> "switch_theme", params |-> Obj([theme |-> th])] :
        th \in ThemeValues \ {Null}}
    \cup {[name |-> "switch_theme", params |-> Obj(NoProps)]}
    \cup {[name |-> "record_fact",
           params |-> Obj([fact_id |-> id, fact_text |-> tx])] :
        id \in FactIdValues \ {Null}, tx \in FactTextValues}
    \cup {[name |-> "record_fact", params |-> Obj(NoProps)]}
    \cup {[name |-> "open_link", params |-> Obj(NoProps)]}

\* onClientTool without the processedFacts.has(id) test of line 314
onClientTool_NoDuplicateCheck(invocation, processed) ==
    LET requested == Get(invocation.params, "theme")
        id == factIdOf(Get(invocation.params, "fact_id"))
        text == textOf(Get(invocation.params, "fact_text"))
        none == [success |-> FALSE, onThemeRequest |-> Null,
                 onWidgetAction |-> Null, processedFacts |-> processed]
    IN IF invocation.name = "switch_theme"
       THEN IF requested = Str("light") \/ requested = Str("dark")
            THEN [none EXCEPT !.success = TRUE, !.onThemeRequest = requested]
            ELSE none
       ELSE IF invocation.name = "record_fact"
       THEN IF id = ""
            THEN [none EXCEPT !.success = TRUE]
            ELSE [none EXCEPT
                    !.success = TRUE,
                    !.processedFacts = processed \cup {id},
                    !.onWidgetAction =
                        [type |-> "save", factId |-> id,
                         factText |-> trim(collapseWhitespace(text))]]
       ELSE none

\* onClientTool accepting every string as a theme instead of the two values
\* compared on line 303
onClientTool_AnyTheme(invocation, processed) ==
    LET requested == Get(invocation.params, "theme")
        id == factIdOf(Get(invocation.params, "fact_id"))
        text == textOf(Get(invocation.params, "fact_text"))
        none == [success |-> FALSE, onThemeRequest |-> Null,
                 onWidgetAction |-> Null, processedFacts |-> processed]
    IN IF invocation.name = "switch_theme"
       THEN IF requested.t = "str"
            THEN [none EXCEPT !.success = TRUE, !.onThemeRequest = requested]
            ELSE none
       ELSE IF invocation.name = "record_fact"
       THEN IF id = "" \/ id \in processed
            THEN [none EXCEPT !.success = TRUE]
            ELSE [none EXCEPT
                    !.success = TRUE,
                    !.processedFacts = processed \cup {id},
                    !.onWidgetAction =
                        [type |-> "save", factId |-> id,
                         factText |-> trim(collapseWhitespace(text))]]
       ELSE none

\* lines 297-325: the result returned, the callback props invoked (Null when
\* not invoked) and the contents of processedFacts afterwards
onClientTool(invocation, processed) ==
    LET requested == Get(invocation.params, "theme")
        id == factIdOf(Get(invocation.params, "fact_id"))
        text == textOf(Get(invocation.params, "fact_text"))
        none == [success |-> FALSE, onThemeRequest |-> Null,
                 onWidgetAction |-> Null, processedFacts |-> processed]
    IN IF invocation.name = "switch_theme"
       THEN IF requested = Str("light") \/ requested = Str("dark")
            THEN [none EXCEPT !.success = TRUE, !.onThemeRequest = requested]
            ELSE none
       ELSE IF invocation.name = "record_fact"
       THEN IF id = "" \/ id \in processed
            THEN [none EXCEPT !.success = TRUE]
            ELSE [none EXCEPT
                    !.success = TRUE,
                    !.processedFacts = processed \cup {id},
                    !.onWidgetAction =
                        [type |-> "save", factId |-> id,
                         factText |-> trim(collapseWhitespace(text))]]
       ELSE none

\* how the promise returned by onWidgetAction ends; "none" when it is not called
SaveOutcomes == {"pending", "resolved", "rejected"}

\* lines 316-321: `void` discards the callback's promise, and line 321 returns
\* without awaiting it
onClientToolAnswer(r, saveOutcome) == r.success

ClientTool(invocation, saveOutcome) ==
    /\ listening
    /\ LET r == onClientTool(invocation, processedFacts)
       IN /\ saveOutcome = "none" <=> r.onWidgetAction = Null
          /\ processedFacts' = r.processedFacts
          /\ IF r.onWidgetAction = Null
             THEN UNCHANGED threadSaves
             ELSE /\ threadSaves[r.onWidgetAction.factId] < MaxSaves
                  /\ threadSaves' =
                        [threadSaves EXCEPT ![r.onWidgetAction.factId] = @ + 1]
          /\ lastOp' = [name |-> "onClientTool", invocation |-> invocation,
                        saveOutcome |-> saveOutcome,
                        success |-> onClientToolAnswer(r, saveOutcome),
                        onThemeRequest |-> r.onThemeRequest,
                        onWidgetAction |-> r.onWidgetAction]
    /\ UNCHANGED <<WORKFLOW_ID, customElement, isMountedRef, listening, timeoutId,
                   scriptStatus, errors, isInitializingSession, widgetInstanceKey,
                   calls, fetchCount, clearedBy>>

\* onThreadChange that keeps processedFacts
onThreadChange_NoClear ==
    /\ listening
    /\ lastOp' = [name |-> "onThreadChange"]
    /\ UNCHANGED <<WORKFLOW_ID, customElement, isMountedRef, listening, timeoutId,
                   scriptStatus, errors, isInitializingSession, widgetInstanceKey,
                   processedFacts, calls, fetchCount, threadSaves, clearedBy>>

\* line 328
onThreadChange ==
    /\ listening
    /\ processedFacts' = {}
    /\ threadSaves' = [id \in FactIds |-> 0]
    /\ clearedBy' = [id \in FactIds |->
                        IF threadSaves[id] > 0 THEN "thread" ELSE clearedBy[id]]
    /\ lastOp' = [name |-> "onThreadChange"]
    /\ UNCHANGED <<WORKFLOW_ID, customElement, isMountedRef, listening, timeoutId,
                   scriptStatus, errors, isInitializingSession, widgetInstanceKey,
                   calls, fetchCount>>

\* line 327
onResponseStart ==
    /\ listening
    /\ errors' = setErrorState(errors, [integration |-> Null, retryable |-> FALSE])
    /\ lastOp' = [name |-> "onResponseStart"]
    /\ UNCHANGED <<WORKFLOW_ID, customElement, isMountedRef, listening, timeoutId,
                   scriptStatus, isInitializingSession, widgetInstanceKey,
                   processedFacts, calls, fetchCount, threadSaves, clearedBy>>

\* onError recording the reported error on the integration channel instead
\* of only logging it
onError_StoresError ==
    /\ listening
    /\ errors' = setErrorState(errors, [integration |-> Str("ChatKit error")])
    /\ lastOp' = [name |-> "onError"]
    /\ UNCHANGED <<WORKFLOW_ID, customElement, isMountedRef, listening, timeoutId,
                   scriptStatus, isInitializingSession, widgetInstanceKey,
                   processedFacts, calls, fetchCount, threadSaves, clearedBy>>

\* lines 329-331: logs only
onError ==
    /\ listening
    /\ lastOp' = [name |-> "onError"]
    /\ UNCHANGED <<WORKFLOW_ID, customElement, isMountedRef, listening, timeoutId,
                   scriptStatus, errors, isInitializingSession, widgetInstanceKey,
                   processedFacts, calls, fetchCount, threadSaves, clearedBy>>

-----------------------------------------------------------------------------
(* Lifecycle, script events and reset *)

\* event.detail values an external loader dispatches with chatkit-script-error
ErrorDetails == {Null, Str("404")}

\* lines 120-183 at mount: the script effect runs first, then the
\* configuration effect
Mount ==
    /\ isMountedRef /\ ~listening /\ lastOp.name = "render"
    /\ LET st == commitScriptEffect(isMountedRef, customElement, scriptStatus,
                    scriptEffectBody(isMountedRef, customElement, View))
       IN IF ~isWorkflowConfigured /\ isMountedRef
          THEN Apply([st EXCEPT
                    !.errors = setErrorState(st.errors,
                        [session |-> Str(ConfigMessage), retryable |-> FALSE]),
                    !.isInitializingSession = FALSE])
          ELSE Apply(st)
    /\ listening' = TRUE
    /\ lastOp' = [name |-> "mount"]
    /\ UNCHANGED <<WORKFLOW_ID, customElement, isMountedRef, widgetInstanceKey,
                   processedFacts, calls, fetchCount, threadSaves, clearedBy>>

\* lines 121-123 and 164-168: the effect cleanups at teardown
Unmount ==
    /\ listening
    /\ isMountedRef' = FALSE
    /\ listening' = FALSE
    /\ timeoutId' = FALSE
    /\ lastOp' = [name |-> "unmount"]
    /\ UNCHANGED <<WORKFLOW_ID, customElement, scriptStatus, errors,
                   isInitializingSession, widgetInstanceKey, processedFacts,
                   calls, fetchCount, threadSaves, clearedBy>>

\* the external script defines the custom element
RegisterElement ==
    /\ ~customElement
    /\ customElement' = TRUE
    /\ lastOp' = [name |-> "registerElement"]
    /\ UNCHANGED <<WORKFLOW_ID, isMountedRef, listening, timeoutId, scriptStatus,
                   errors, isInitializingSession, widgetInstanceKey,
                   processedFacts, calls, fetchCount, threadSaves, clearedBy>>

\* a chatkit-script-loaded event is dispatched on window
ScriptLoaded ==
    /\ lastOp.name # "render"
    /\ IF listening
       THEN Apply(commitScriptEffect(isMountedRef, customElement, scriptStatus,
                    handleLoaded(isMountedRef, View)))
       ELSE UNCHANGED <<scriptStatus, errors, isInitializingSession, timeoutId>>
    /\ lastOp' = [name |-> "scriptLoaded"]
    /\ UNCHANGED <<WORKFLOW_ID, customElement, isMountedRef, listening,
                   widgetInstanceKey, processedFacts, calls, fetchCount,
                   threadSaves, clearedBy>>

\* a chatkit-script-error event is dispatched on window
ScriptError(detail) ==
    /\ lastOp.name # "render"
    /\ IF listening
       THEN Apply(commitScriptEffect(isMountedRef, customElement, scriptStatus,
                    handleError(isMountedRef, View, detail)))
       ELSE UNCHANGED <<scriptStatus, errors, isInitializingSession, timeoutId>>
    /\ lastOp' = [name |-> "scriptError", detail |-> detail]
    /\ UNCHANGED <<WORKFLOW_ID, customElement, isMountedRef, listening,
                   widgetInstanceKey, processedFacts, calls, fetchCount,
                   threadSaves, clearedBy>>

\* lines 152-161: the 5 s timer fires
Timeout ==
    /\ timeoutId
    /\ LET fired == [View EXCEPT !.timeoutId = FALSE]
       IN IF ~customElement
          THEN Apply(commitScriptEffect(isMountedRef, customElement, scriptStatus,
                        handleError(isMountedRef, fired, Str(TimeoutDetail))))
          ELSE Apply(fired)
    /\ lastOp' = [name |-> "timeout"]
    /\ UNCHANGED <<WORKFLOW_ID, customElement, isMountedRef, listening,
                   widgetInstanceKey, processedFacts, calls, fetchCount,
                   threadSaves, clearedBy>>

\* handleResetChat without setErrors(createInitialErrors()) of line 193
handleResetChat_KeepsErrors ==
    /\ listening
    /\ widgetInstanceKey < MaxKey
    /\ processedFacts' = {}
    /\ Apply(commitScriptEffect(isMountedRef, customElement, scriptStatus,
                [View EXCEPT
                    !.scriptStatus = IF customElement THEN "ready" ELSE "pending",
                    !.isInitializingSession = TRUE]))
    /\ widgetInstanceKey' = widgetInstanceKey + 1
    /\ threadSaves' = [id \in FactIds |-> 0]
    /\ clearedBy' = [id \in FactIds |->
                        IF threadSaves[id] > 0 THEN "reset" ELSE clearedBy[id]]
    /\ lastOp' = [name |-> "reset"]
    /\ UNCHANGED <<WORKFLOW_ID, customElement, isMountedRef, listening, calls,
                   fetchCount>>

\* lines 185-195, followed by the re-render it causes
handleResetChat ==
    /\ listening
    /\ widgetInstanceKey < MaxKey
    /\ processedFacts' = {}
    /\ Apply(commitScriptEffect(isMountedRef, customElement, scriptStatus,
                [View EXCEPT
                    !.scriptStatus = IF customElement THEN "ready" ELSE "pending",
                    !.isInitializingSession = TRUE,
                    !.errors = createInitialErrors]))
    /\ widgetInstanceKey' = widgetInstanceKey + 1
    /\ threadSaves' = [id \in FactIds |-> 0]
    /\ clearedBy' = [id \in FactIds |->
                        IF threadSaves[id] > 0 THEN "reset" ELSE clearedBy[id]]
    /\ lastOp' = [name |-> "reset"]
    /\ UNCHANGED <<WORKFLOW_ID, customElement, isMountedRef, listening, calls,
                   fetchCount>>

-----------------------------------------------------------------------------
(* View model, lines 334-367 *)

activeError == Coalesce(errors.session, errors.integration)
blockingError == Coalesce(errors.script, activeError)
widgetHidden == Truthy(blockingError) \/ isInitializingSession
fallbackShown == ~(Truthy(blockingError) \/ ~isInitializingSession)
retryExposed == Truthy(blockingError) /\ errors.retryable

-----------------------------------------------------------------------------
(* Specification *)

\* the component after construction, before any effect has run
Constructed ==
    /\ WORKFLOW_ID \in WorkflowIds
    /\ customElement \in BOOLEAN
    /\ isMountedRef = TRUE
    /\ listening = FALSE
    /\ timeoutId = FALSE
    /\ scriptStatus = IF customElement THEN "ready" ELSE "pending"
    /\ errors = createInitialErrors
    /\ isInitializingSession = TRUE
    /\ widgetInstanceKey = 0
    /\ processedFacts = {}
    /\ calls = [i \in CallIds |-> Idle]
    /\ fetchCount = 0
    /\ threadSaves = [id \in FactIds |-> 0]
    /\ clearedBy = [id \in FactIds |-> "none"]

Init ==
    /\ Constructed
    /\ lastOp = [name |-> "render"]

\* line 365: the overlay receives handleResetChat as onRetry only while a
\* blocking error is shown and errors.retryable is set; otherwise onRetry is
\* null and the user's attempt to retry reaches no handler
RetryClick ==
    /\ listening
    /\ IF retryExposed
       THEN handleResetChat
       ELSE /\ lastOp' = [name |-> "retryClick"]
            /\ UNCHANGED <<WORKFLOW_ID, customElement, isMountedRef, listening,
                           timeoutId, scriptStatus, errors, isInitializingSession,
                           widgetInstanceKey, processedFacts, calls, fetchCount,
                           threadSaves, clearedBy>>

\* lifecycle, script monitor and reset: the steps both parts below share
NextLifecycle ==
    \/ Mount
    \/ Unmount
    \/ RegisterElement
    \/ ScriptLoaded
    \/ \E detail \in ErrorDetails : ScriptError(detail)
    \/ Timeout
    \/ handleResetChat
    \/ onResponseStart
    \/ onError

NextSession ==
    \/ \E i \in CallIds, secret \in CurrentSecrets : getClientSecretStart(i, secret)
    \/ \E i \in CallIds, resp \in Responses : getClientSecretSettle(i, resp)

NextTools ==
    \/ \E invocation \in Invocations, saveOutcome \in SaveOutcomes \cup {"none"} :
          ClientTool(invocation, saveOutcome)
    \/ onThreadChange

\* the events the rendered page can deliver: handleResetChat is reachable
\* only through the overlay's retry action
NextUi ==
    \/ Mount
    \/ Unmount
    \/ RegisterElement
    \/ ScriptLoaded
    \/ \E detail \in ErrorDetails : ScriptError(detail)
    \/ Timeout
    \/ RetryClick
    \/ onResponseStart
    \/ onError

Next == NextLifecycle \/ NextSession \/ NextTools \/ RetryClick

Spec == Init /\ [][Next]_vars

\* The tool router reads and writes only processedFacts (and the observation
\* variables threadSaves, clearedBy, lastOp) and is enabled whenever the
\* component is mounted; getClientSecret never touches those.  The two parts
\* therefore only interleave, and each is explored with the lifecycle steps
\* they share.
SessionSpec == Init /\ [][NextLifecycle \/ NextSession]_vars

ToolSpec == Init /\ [][NextLifecycle \/ NextTools]_vars

\* The page as rendered: getClientSecret together with the events of NextUi
UiSpec == Init /\ [][NextUi \/ NextSession]_vars

-----------------------------------------------------------------------------
(* The text normalisation of record_fact, line 319, over all short texts *)

MaxTextLen == 4
TextChars == {"a", " ", "\n"}
Texts == UNION {[1..n -> TextChars] : n \in 0..MaxTextLen}

TextInvocations ==
    {[name |-> "record_fact",
      params |-> Obj([fact_id |-> Str("f1"), fact_text |-> Str(text)])] :
        text \in Texts}
    \cup {[name |-> "record_fact",
           params |-> Obj([fact_id |-> Str("f1"), fact_text |-> tx])] :
        tx \in FactTextValues \ {Null}}
    \cup {[name |-> "record_fact", params |-> Obj([fact_id |-> Str("f1")])]}

NextNormalize ==
    \/ Mount
    \/ \E invocation \in TextInvocations, saveOutcome \in SaveOutcomes \cup {"none"} :
          ClientTool(invocation, saveOutcome)
    \/ onThreadChange

NormalizeSpec == Init /\ [][NextNormalize]_vars

-----------------------------------------------------------------------------
(* extractErrorDetail as a function of its arguments, lines 372-402 *)

Absent == [t |-> "absent"]
Field(key, v) == IF v = Absent THEN NoProps ELSE (key :> v)

ErrorValues ==
    {Absent, Str("e"), Num(7), Obj(NoProps), Obj([message |-> Str("em")]),
     Obj([message |-> Num(7)])}
DetailsValues ==
    {Absent, Str("d"), Obj(NoProps), Obj([error |-> Str("de")]),
     Obj([error |-> Obj([message |-> Str("dem")])]),
     Obj([error |-> Obj([message |-> Num(7)])])}
MessageValues == {Absent, Str("m"), Num(7)}

\* undefined, and the objects built from the three fields the function reads
Payloads ==
    {Null} \cup
    {Obj(Field("error", e) @@ Field("details", d) @@ Field("message", m)) :
        e \in ErrorValues, d \in DetailsValues, m \in MessageValues}
Fallbacks == {"Internal Server Error", ""}

ExtractInit ==
    /\ Constructed
    /\ \E payload \in Payloads, fallback \in Fallbacks :
          lastOp = [name |-> "input", payload |-> payload, fallback |-> fallback]

ExtractDetail ==
    /\ lastOp.name = "input"
    /\ lastOp' = [name |-> "extractErrorDetail", payload |-> lastOp.payload,
                  fallback |-> lastOp.fallback,
                  detail |-> extractErrorDetail(lastOp.payload, lastOp.fallback)]
    /\ UNCHANGED <<WORKFLOW_ID, customElement, isMountedRef, listening, timeoutId,
                   scriptStatus, errors, isInitializingSession, widgetInstanceKey,
                   processedFacts, calls, fetchCount, threadSaves, clearedBy>>

ExtractSpec == ExtractInit /\ [][ExtractDetail]_vars

\* SessionSpec with the scheduling the browser guarantees: the mount effects
\* run after the first render, and a pending timer that is not cleared fires
LiveSessionSpec ==
    SessionSpec /\ WF_vars(Mount) /\ WF_vars(Timeout)

TypeOK ==
    /\ scriptStatus \in {"pending", "ready", "error"}
    /\ isInitializingSession \in BOOLEAN
    /\ widgetInstanceKey \in 0..MaxKey
    /\ fetchCount \in 0..MaxFetch
    /\ processedFacts \subseteq FactIds

-----------------------------------------------------------------------------
(* Claims about the tool router, checked under ToolSpec *)

\* the step just taken was onClientTool with a record_fact invocation
RecordFactStep == lastOp'.name = "onClientTool" /\ lastOp'.invocation.name = "record_fact"

\* the fact id that invocation carried, as the router reads it
StepFactId == factIdOf(Get(lastOp'.invocation.params, "fact_id"))

\* C1: within one thread (no onThreadChange and no reset in between) the
\* save callback onWidgetAction is invoked at most once per fact id and never
\* for the empty id; a record_fact invocation whose fact_id is empty or
\* already in processedFacts returns success, invokes no callback and leaves
\* processedFacts unchanged.
C1_SaveAtMostOncePerThread ==
    [][ /\ \A id \in FactIds : threadSaves'[id] <= 1
        /\ threadSaves'[""] = 0
        /\ (RecordFactStep /\ (StepFactId = "" \/ StepFactId \in processedFacts))
              => /\ lastOp'.success = TRUE
                 /\ lastOp'.onWidgetAction = Null
                 /\ lastOp'.onThemeRequest = Null
                 /\ processedFacts' = processedFacts ]_vars

\* a repeated fact id has just been suppressed while another id is also recorded
C1_Witness ==
    /\ lastOp.name = "onClientTool"
    /\ lastOp.invocation.name = "record_fact"
    /\ factIdOf(Get(lastOp.invocation.params, "fact_id")) = "7"
    /\ lastOp.invocation.params.f.fact_id = Num(7)
    /\ lastOp.onWidgetAction = Null
    /\ processedFacts = {"7", "f1"}
    /\ threadSaves["7"] = 1

\* C9: reset() empties processedFacts, so a fact id processed before the reset
\* is processed again (the save callback fires) when record_fact is invoked
\* with it afterwards; reset() also sets isInitializingSession, sets the three
\* error channels to null with retryable false, and increments
\* widgetInstanceKey by exactly one.
C9_ResetClearsState ==
    [][ /\ lastOp'.name = "reset"
              => /\ processedFacts' = {}
                 /\ isInitializingSession' = TRUE
                 /\ errors' = [script |-> Null, session |-> Null,
                               integration |-> Null, retryable |-> FALSE]
                 /\ widgetInstanceKey' = widgetInstanceKey + 1
        /\ (RecordFactStep /\ StepFactId # "" /\ StepFactId \notin processedFacts)
              => /\ lastOp'.onWidgetAction # Null
                 /\ lastOp'.onWidgetAction.factId = StepFactId
                 /\ lastOp'.success = TRUE ]_vars

\* a fact id saved before a reset has just been saved again, and the reset
\* had cleared an error and restored the initializing flag
C9_Witness ==
    /\ lastOp.name = "onClientTool"
    /\ lastOp.onWidgetAction # Null
    /\ clearedBy[lastOp.onWidgetAction.factId] = "reset"
    /\ widgetInstanceKey = 1
    /\ ~isWorkflowConfigured
    /\ errors.session = Null
    /\ isInitializingSession

\* C10: every thread-change signal empties processedFacts, so a fact id
\* processed in the previous thread is processed again in the new one; apart
\* from thread change and reset no operation removes an entry.
C10_ThreadChangeClears ==
    [][ /\ lastOp'.name = "onThreadChange" => processedFacts' = {}
        /\ lastOp'.name \notin {"onThreadChange", "reset"}
              => processedFacts \subseteq processedFacts'
        /\ (RecordFactStep /\ StepFactId # "" /\ StepFactId \notin processedFacts)
              => /\ lastOp'.onWidgetAction # Null
                 /\ lastOp'.onWidgetAction.factId = StepFactId
                 /\ StepFactId \in processedFacts' ]_vars

\* a fact id saved in an earlier thread has just been saved again
C10_Witness ==
    /\ lastOp.name = "onClientTool"
    /\ lastOp.onWidgetAction # Null
    /\ clearedBy[lastOp.onWidgetAction.factId] = "thread"
    /\ threadSaves[lastOp.onWidgetAction.factId] = 1
    /\ widgetInstanceKey = 0

-----------------------------------------------------------------------------
(* Claims about the credential provider and the script monitor, checked     *)
(* under SessionSpec                                                        *)

\* the step just taken was a step of a getClientSecret invocation
SecretStep == lastOp'.name = "getClientSecret"
SettleStep == SecretStep /\ lastOp'.step = "settle"

\* the workflow id is missing or is the placeholder sentinel
MissingOrPlaceholder ==
    WORKFLOW_ID \in {<<>>, <<"wf_replace">>, <<"wf_replace", "_with_your_workflow_id">>}

\* C2 as stated: no step of a getClientSecret call made with an existing
\* currentSecret changes isInitializingSession, whatever the outcome
\* (configuration failure included).
C2_RefreshNeverTogglesInitializing ==
    [][ (SecretStep /\ Truthy(lastOp'.currentSecret))
            => isInitializingSession' = isInitializingSession ]_vars

\* C2 as amended: a getClientSecret call made with an existing currentSecret
\* that passes the configuration check never changes isInitializingSession
\* (HTTP failure, missing secret, success); a configuration failure clears the
\* flag while the component is mounted, with or without a current secret.
C2_RefreshTogglesOnlyOnConfigFailure ==
    [][ (SecretStep /\ Truthy(lastOp'.currentSecret))
            => IF MissingOrPlaceholder /\ isMountedRef
               THEN isInitializingSession' = FALSE
               ELSE isInitializingSession' = isInitializingSession ]_vars

\* a refresh call has just settled while an initial call is still in flight,
\* and the initializing flag is still set
C2_Witness ==
    /\ lastOp.name = "getClientSecret"
    /\ lastOp.step = "settle"
    /\ Truthy(lastOp.currentSecret)
    /\ isMountedRef
    /\ isInitializingSession
    /\ \E i \in CallIds : calls[i].pc = "fetching" /\ calls[i].currentSecret = Null

\* C3: the completion of a getClientSecret call that was in flight when
\* reset() ran changes neither the error channels nor the initializing flag.
C3_StaleCompletionIgnored ==
    [][ (SettleStep /\ lastOp'.instanceKey < widgetInstanceKey)
            => /\ errors' = errors
               /\ isInitializingSession' = isInitializingSession ]_vars

\* C4: once the liveness flag is cleared the listeners and the timer are gone
\* and no later step (a settling getClientSecret call, a script loaded or
\* error signal, a timer) changes errors, isInitializingSession or
\* scriptStatus.
C4_NoOpAfterTeardown ==
    [][ ~isMountedRef
            => /\ errors' = errors
               /\ isInitializingSession' = isInitializingSession
               /\ scriptStatus' = scriptStatus
               /\ ~timeoutId' /\ ~listening' /\ ~isMountedRef' ]_vars

\* an initial call has just failed after teardown and left no trace
C4_Witness ==
    /\ ~isMountedRef
    /\ lastOp.name = "getClientSecret"
    /\ lastOp.step = "settle"
    /\ lastOp.kind = "throw"
    /\ lastOp.currentSecret = Null
    /\ errors.session # lastOp.value
    /\ isInitializingSession

\* C5: with a missing or placeholder workflow id no fetch is ever issued,
\* every getClientSecret call throws the configuration message and, while
\* mounted, sets the session channel to it with retryable false and clears
\* the initializing flag.
C5_UnconfiguredFailsWithoutFetch ==
    [][ MissingOrPlaceholder
            => /\ fetchCount' = 0
               /\ \A i \in CallIds : calls'[i].pc = "idle"
               /\ SecretStep
                    => /\ lastOp'.kind = "throw"
                       /\ lastOp'.value = Str(ConfigMessage)
                       /\ isMountedRef
                            => /\ errors'.session = Str(ConfigMessage)
                               /\ errors'.retryable = FALSE
                               /\ isInitializingSession' = FALSE ]_vars

\* with the placeholder id, a call made after a reset has just failed and
\* restored the configuration message
C5_Witness ==
    /\ WORKFLOW_ID = <<"wf_replace", "_with_your_workflow_id">>
    /\ lastOp.name = "getClientSecret"
    /\ lastOp.kind = "throw"
    /\ isMountedRef
    /\ widgetInstanceKey = 1
    /\ errors.session = Str(ConfigMessage)
    /\ ~isInitializingSession
    /\ fetchCount = 0

\* C6: while mounted, a non-successful HTTP status makes getClientSecret
\* throw, sets the session channel to the detail extracted from the body
\* ("boom" for {"error":"boom"}) with retryable false, and leaves the widget
\* surface hidden.
C6_HttpFailureHidesWidget ==
    [][ (SettleStep /\ isMountedRef /\ lastOp'.response.arrived
            /\ ~lastOp'.response.ok)
            => /\ lastOp'.kind = "throw"
               /\ errors'.session = lastOp'.value
               /\ lastOp'.response.body = RawJson(Obj([error |-> Str("boom")]))
                    => errors'.session = Str("boom")
               /\ errors'.retryable = FALSE
               /\ widgetHidden' ]_vars

\* C7: a successful HTTP status whose payload has no client_secret (an empty
\* or non-JSON body included) never returns a secret: the call throws the
\* fixed missing-secret message, which becomes the session channel.
C7_MissingSecretMessage ==
    [][ (SettleStep /\ lastOp'.response.arrived /\ lastOp'.response.ok
            /\ ~Truthy(Get(parseBody(lastOp'.response.body), "client_secret")))
            => /\ lastOp'.kind = "throw"
               /\ lastOp'.value = Str(MissingSecretMessage)
               /\ isMountedRef => errors'.session = Str(MissingSecretMessage) ]_vars

\* the script error is what the overlay shows
ScriptErrorShown ==
    /\ scriptStatus = "error"
    /\ errors.script # Null
    /\ blockingError = errors.script

\* C8: when the component is mounted, the custom element is not registered
\* and the status is pending, then unless a script loaded signal arrives, the
\* element gets registered or the component is torn down, scriptStatus
\* becomes error with a script error message that is the blocking error.
C8_TimeoutLeadsToScriptError ==
    (listening /\ ~customElement /\ scriptStatus = "pending")
        ~> (ScriptErrorShown \/ customElement \/ scriptStatus = "ready"
                \/ ~isMountedRef)

\* the timer has just fired and its message is shown
C8_Witness ==
    /\ lastOp.name = "timeout"
    /\ ~customElement
    /\ scriptStatus = "error"
    /\ errors.script = Str("Erro: " \o TimeoutDetail)
    /\ blockingError = errors.script
    /\ errors.session # Null

\* ---------------------------------------------------------------------------
\* C11: a switch_theme invocation whose theme is not exactly "light" or "dark"
\* (an absent theme included) is answered {success: false} and invokes no
\* callback; with "light" or "dark" the theme callback is invoked once, with
\* that value, and the answer is {success: true}; an invocation of any other
\* name than switch_theme and record_fact is answered {success: false},
\* invokes no callback and leaves processedFacts alone.
ToolStep == lastOp'.name = "onClientTool"
ValidThemes == {Str("light"), Str("dark")}

C11_ThemeRouting ==
    [][ToolStep =>
        LET invocation == lastOp'.invocation
            requested == Get(invocation.params, "theme")
        IN /\ (invocation.name = "switch_theme" /\ requested \notin ValidThemes)
                => /\ ~lastOp'.success
                   /\ lastOp'.onThemeRequest = Null
                   /\ lastOp'.onWidgetAction = Null
           /\ (invocation.name = "switch_theme" /\ requested \in ValidThemes)
                => /\ lastOp'.success
                   /\ lastOp'.onThemeRequest = requested
                   /\ lastOp'.onWidgetAction = Null
           /\ invocation.name \notin {"switch_theme", "record_fact"}
                => /\ ~lastOp'.success
                   /\ lastOp'.onThemeRequest = Null
                   /\ lastOp'.onWidgetAction = Null
                   /\ processedFacts' = processedFacts]_vars

\* a theme that differs from "light" only in case has been rejected
C11_Witness ==
    /\ lastOp.name = "onClientTool"
    /\ lastOp.invocation.name = "switch_theme"
    /\ Get(lastOp.invocation.params, "theme") = Str("Light")
    /\ ~lastOp.success
    /\ lastOp.onThemeRequest = Null

\* ---------------------------------------------------------------------------
\* C12: in every reachable state the blocking error is the script error if it
\* is non-null, else the session error if it is non-null, else the
\* integration error; the loading fallback is shown exactly when there is no
\* blocking error and the session is initializing; the widget is hidden
\* exactly when there is a blocking error or the session is initializing; the
\* retry action is exposed exactly when there is a blocking error and
\* retryable is true.
C12_ViewDerivation ==
    /\ blockingError =
          IF errors.script # Null THEN errors.script
          ELSE IF errors.session # Null THEN errors.session
          ELSE errors.integration
    /\ fallbackShown <=> (blockingError = Null /\ isInitializingSession)
    /\ widgetHidden <=> (blockingError # Null \/ isInitializingSession)
    /\ retryExposed <=> (blockingError # Null /\ errors.retryable)

\* ---------------------------------------------------------------------------
\* C13: in every state the rendered page can reach, errors.retryable is false,
\* so the retry action is never exposed; reset() is therefore never triggered
\* from the UI and widgetInstanceKey stays 0.
C13_RetryNeverExposed ==
    /\ errors.retryable = FALSE
    /\ ~retryExposed
    /\ widgetInstanceKey = 0

\* a blocking error is shown and the user's retry attempt has found no handler
C13_Witness ==
    /\ lastOp.name = "retryClick"
    /\ Truthy(blockingError)
    /\ widgetInstanceKey = 0

\* ---------------------------------------------------------------------------
\* C14: extractErrorDetail returns the first string found in this order: the
\* payload's error; error.message; the payload's details; details.error;
\* details.error.message; the payload's message; and otherwise the fallback
\* (the HTTP status text).  An earlier entry wins over a later one, and an
\* error object without a string message falls through to the details checks.
Candidates(payload) ==
    << Get(payload, "error"),
       Get(Get(payload, "error"), "message"),
       Get(payload, "details"),
       Get(Get(payload, "details"), "error"),
       Get(Get(Get(payload, "details"), "error"), "message"),
       Get(payload, "message") >>

FirstString(candidates, fallback) ==
    LET hits == {i \in DOMAIN candidates : candidates[i].t = "str"}
    IN IF hits = {} THEN fallback
       ELSE candidates[CHOOSE i \in hits : \A j \in hits : i <= j].s

C14_FirstMatchWins ==
    lastOp.name = "extractErrorDetail"
        => lastOp.detail = FirstString(Candidates(lastOp.payload), lastOp.fallback)

\* an error object whose message is not a string has fallen through to
\* details.error, which has won over the top-level message
C14_Witness ==
    /\ lastOp.name = "extractErrorDetail"
    /\ Get(lastOp.payload, "error") = Obj([message |-> Num(7)])
    /\ Get(lastOp.payload, "details") = Obj([error |-> Str("de")])
    /\ Get(lastOp.payload, "message") = Str("m")
    /\ lastOp.detail = "de"

\* ---------------------------------------------------------------------------
\* C15: the text handed to the save callback for a processed record_fact is
\* fact_text with every run of whitespace collapsed to one space and leading
\* and trailing whitespace removed ("a   b\n c" becomes "a b c"); an absent
\* fact_text yields the empty text; and the invocation is answered
\* {success: true} whether the callback's promise stays pending, resolves or
\* rejects.
RECURSIVE Words(_)
Words(text) ==
    IF text = <<>> THEN <<>>
    ELSE IF Head(text) \in Whitespace THEN Words(Tail(text))
    ELSE LET ends == {k \in 1..Len(text) :
                        \A j \in 1..k : text[j] \notin Whitespace}
             n == CHOOSE k \in ends : \A j \in ends : j <= k
         IN <<SubSeq(text, 1, n)>> \o Words(SubSeq(text, n + 1, Len(text)))

RECURSIVE JoinWords(_)
JoinWords(words) ==
    IF words = <<>> THEN <<>>
    ELSE IF Len(words) = 1 THEN words[1]
    ELSE words[1] \o <<" ">> \o JoinWords(Tail(words))

C15_NormalizedTextFireAndForget ==
    (lastOp.name = "onClientTool" /\ lastOp.invocation.name = "record_fact"
            /\ lastOp.onWidgetAction # Null)
        => LET fact_text == Get(lastOp.invocation.params, "fact_text")
               factText == lastOp.onWidgetAction.factText
           IN /\ factText = JoinWords(Words(textOf(fact_text)))
              /\ fact_text = Null => factText = <<>>
              /\ fact_text = Str(<<"a", " ", " ", " ", "b", "\n", " ", "c">>)
                    => factText = <<"a", " ", "b", " ", "c">>
              /\ lastOp.saveOutcome \in SaveOutcomes
              /\ lastOp.success = TRUE

\* the claim's example has been saved through a callback whose promise rejected
C15_Witness ==
    /\ lastOp.name = "onClientTool"
    /\ Get(lastOp.invocation.params, "fact_text")
          = Str(<<"a", " ", " ", " ", "b", "\n", " ", "c">>)
    /\ lastOp.onWidgetAction # Null
    /\ lastOp.onWidgetAction.factText = <<"a", " ", "b", " ", "c">>
    /\ lastOp.saveOutcome = "rejected"
    /\ lastOp.success

\* ---------------------------------------------------------------------------
\* C16 as claimed: apart from reset(), scriptStatus only changes from pending
\* (to ready or to error): once ready, no script error signal or timeout
\* moves it to error, and once error, no script loaded signal moves it to
\* ready.
C16_StatusOnlyLeavesPending ==
    [][(scriptStatus' # scriptStatus /\ lastOp'.name # "reset")
            => scriptStatus = "pending"]_vars

\* C16: apart from reset(), scriptStatus is changed only by the mount effect
\* (pending to ready), the timeout (pending to error) and the two script
\* signals; while the listeners are attached a script loaded signal leaves it
\* ready whatever it was, and a script error signal leaves it error whatever
\* it was, unless the custom element is registered and the status was not
\* already error, in which case the re-run effect leaves it ready.
C16_StatusTransitions ==
    [][ /\ (scriptStatus' # scriptStatus /\ lastOp'.name # "reset")
            => lastOp'.name \in {"mount", "timeout", "scriptLoaded", "scriptError"}
        /\ (scriptStatus' # scriptStatus /\ lastOp'.name = "mount")
            => (scriptStatus = "pending" /\ scriptStatus' = "ready")
        /\ (scriptStatus' # scriptStatus /\ lastOp'.name = "timeout")
            => (scriptStatus = "pending" /\ scriptStatus' = "error")
        /\ (lastOp'.name = "scriptLoaded" /\ listening)
            => scriptStatus' = "ready"
        /\ (lastOp'.name = "scriptError" /\ listening)
            => scriptStatus' = IF customElement /\ scriptStatus # "error"
                               THEN "ready" ELSE "error" ]_vars

\* a script loaded signal has moved the status from error to ready: with a
\* configured workflow, no fetch and no reset, only handleError can have
\* cleared the initializing flag
C16_Witness ==
    /\ lastOp.name = "scriptLoaded"
    /\ scriptStatus = "ready"
    /\ ~customElement
    /\ isWorkflowConfigured
    /\ fetchCount = 0
    /\ widgetInstanceKey = 0
    /\ ~isInitializingSession

\* ---------------------------------------------------------------------------
\* C17: when two getClientSecret calls overlap and both complete while the
\* component is mounted, the session error after the later completion is that
\* call's own result: null if it succeeded, its failure message if it failed,
\* whichever of the two was started first.
C17_LastCompletionWins ==
    [][ (SettleStep /\ isMountedRef /\ lastOp'.overlapped
            /\ \A i \in CallIds : calls'[i].pc = "idle")
          => errors'.session =
                IF lastOp'.kind = "return" THEN Null ELSE lastOp'.value ]_vars

\* the call started first completed last and succeeded, after the call started
\* second had failed while it was in flight
C17_Witness ==
    /\ lastOp.name = "getClientSecret" /\ lastOp.step = "settle"
    /\ isMountedRef
    /\ lastOp.overlapped /\ lastOp.seq = 1 /\ fetchCount = 2
    /\ \A i \in CallIds : calls[i].pc = "idle"
    /\ lastOp.kind = "return"
    /\ errors.session = Null

\* ---------------------------------------------------------------------------
\* C18: the integration error channel is null in every reachable state:
\* construction, reset, a session attempt, a successful session and a response
\* start set it to null, and no operation, widget error reports included,
\* stores anything else in it.
C18_IntegrationAlwaysNull == errors.integration = Null

\* a widget error has been reported while a session error is displayed, and
\* the integration channel is still null
C18_Witness ==
    /\ lastOp.name = "onError"
    /\ errors.session # Null
    /\ errors.integration = Null

\* ---------------------------------------------------------------------------
\* C19: while the component is mounted and at least one getClientSecret call
\* made without a current secret is in flight, isInitializingSession is true,
\* also when several such calls overlap and when a script error signal has
\* arrived in the meantime.
C19_InitializingWhileInitialCallInFlight ==
    (isMountedRef /\ \E i \in CallIds :
            calls[i].pc = "fetching" /\ calls[i].currentSecret = Null)
        => isInitializingSession

\* ---------------------------------------------------------------------------
\* C20: in every reachable state errors.script is non-null exactly when
\* scriptStatus is "error": a script error signal or timeout that sets the
\* status to error stores the message with it, a script loaded signal sets
\* the status to ready and clears the message, and reset() clears the message
\* while setting the status to pending or ready.
C20_ScriptErrorIffStatusError ==
    /\ [](errors.script # Null <=> scriptStatus = "error")
    /\ [][ /\ (lastOp'.name \in {"scriptError", "timeout"}
                    /\ scriptStatus' = "error" /\ listening)
                => errors'.script # Null
           /\ (lastOp'.name = "scriptLoaded" /\ listening)
                => (scriptStatus' = "ready" /\ errors'.script = Null)
           /\ lastOp'.name = "reset"
                => (errors'.script = Null /\ scriptStatus' \in {"pending", "ready"})
         ]_vars

\* an error signal arrived while the custom element was registered: the re-run
\* effect has restored the ready status and cleared the message with it
C20_Witness ==
    /\ lastOp.name = "scriptError"
    /\ listening
    /\ customElement
    /\ scriptStatus = "ready"
    /\ errors.script = Null

====
